---- MODULE Spec2Model ----
(***************************************************************************)
(* Model of src/src/rpitouch/app.py: the touch-controlled media viewer.    *)
(* The state is main()'s locals (idx, current_proc, last_was_video,        *)
(* last_show_ms, running, screen), the module-level touch_queue, the       *)
(* players spawned with subprocess.Popen, and the position of the control  *)
(* loop inside one pass of `while running`.  History variables (shows,     *)
(* showsInTick, order, lastShow, pushed, popped) record what the loop did  *)
(* so that properties over transitions can be stated on states.            *)
(***************************************************************************)
EXTENDS Integers, Sequences, FiniteSets, TLC

\* ---------------------------------------------------------------- bounds
MaxN == 3          \* longest catalog (media list) explored
MaxBatch == 2      \* most events returned by one pygame.event.get()
MaxTouches == 2    \* most tokens the evdev thread pushes during a run
MaxTime == 2000    \* clock.tick() is followed up to this many ms of get_ticks()

\* ------------------------------------------------------ program constants
MIN_VIEW_MS == 1000
TERM_TIMEOUT_MS == 2000
BLACKOUT_MS == 50

\* ------------------------------------------------------------ input sets
None == 0
Kinds == {"img", "vid"}
EventTypes == {"QUIT", "KEYDOWN_ESCAPE", "MOUSEBUTTONDOWN", "OTHER"}
PointerDown == {"FINGERDOWN", "MOUSEBUTTONDOWN"}
TickDurations == {500, 1000}
WaitDurations == {0, 1000}

SeqsUpTo(S, n) == UNION {[1..k -> S] : k \in 0..n}
Catalogs == SeqsUpTo(Kinds, MaxN)
Batches == SeqsUpTo(EventTypes, MaxBatch)

VARIABLES
    media,          \* the list load_media_list() returned, as kinds
    pc,             \* position of main()
    running,        \* main's `running`
    idx,            \* main's `idx`
    current_proc,   \* main's `current_proc`: None or an index into procs
    last_was_video, \* main's `last_was_video`
    last_show_ms,   \* main's `last_show_ms`
    clock,          \* pygame.time.get_ticks()
    procs,          \* every player spawned so far: [alive, term]
    touch_queue,    \* the module-level queue.Queue
    events,         \* what is left of the list pygame.event.get() returned
    listener,       \* whether the EvdevTouch thread was started
    screen,         \* what the display shows
    shows,          \* history: number of show() calls made by the loop
    showsInTick,    \* history: show() calls in the current pass of the loop
    order,          \* history: input sources handled in the current pass
    lastShow,       \* history: the latest show() call
    pushed,         \* history: tokens put by the listener
    popped          \* history: tokens removed by the loop

vars == <<media, pc, running, idx, current_proc, last_was_video, last_show_ms,
          clock, procs, touch_queue, events, listener, screen, shows,
          showsInTick, order, lastShow, pushed, popped>>

N == Len(media)
KindOf(i) == media[i + 1]

NoShow == [cause |-> "none", from |-> "none", to |-> "none", reset |-> FALSE,
           elapsed |-> 0, liveAtLaunch |-> 0, launched |-> FALSE,
           termTimeout |-> FALSE, lwvAtEntry |-> FALSE, took |-> 0,
           displayed |-> 0]

Init ==
    /\ media \in Catalogs
    /\ pc = "start"
    /\ running = TRUE
    /\ idx = 0
    /\ current_proc = None
    /\ last_was_video = FALSE
    /\ last_show_ms = 0
    /\ clock = 0
    /\ procs = <<>>
    /\ touch_queue = <<>>
    /\ events = <<>>
    /\ listener = FALSE
    /\ screen = "none"
    /\ shows = 0
    /\ showsInTick = 0
    /\ order = <<>>
    /\ lastShow = NoShow
    /\ pushed = 0
    /\ popped = 0

\* ------------------------------------------------------------ pure parts
MustTerminate_Never(cp, pr) == FALSE

\* line 182: `current_proc and current_proc.poll() is None`
MustTerminate(cp, pr) == cp # None /\ pr[cp].alive

VideoFinished_Never(cp, pr) == FALSE

\* line 227: `current_proc and current_proc.poll() is not None`
VideoFinished(cp, pr) == cp # None /\ ~pr[cp].alive

DwellOk_Always(now, last) == TRUE

\* lines 220, 236: `pygame.time.get_ticks() - last_show_ms >= MIN_VIEW_MS`
DwellOk(now, last) == now - last >= MIN_VIEW_MS

NextIdx_NoWrap(i) == IF i + 1 < N THEN i + 1 ELSE i

\* lines 221, 230, 237: `(idx + 1) % len(media)`
NextIdx(i) == (i + 1) % N

\* lines 190-191: `ext in IMG_EXTS` and `last_was_video`
NeedsReset(kind, lwv) == kind = "img" /\ lwv

LwvAfterImage_Kept(lwv) == lwv

\* line 195: `last_was_video = False`
LwvAfterImage(lwv) == FALSE

LwvAfterVideo_OnlyIfLaunched(launched) == launched

\* line 203: `last_was_video = True`, whether or not play_video gave a handle
LwvAfterVideo(launched) == TRUE

PhaseAfterEvents_Evdev == "evdev"

\* the loop body's order: events (209-224), auto-advance (226-231),
\* evdev drain (233-240)
PhaseAfterEvents == "auto"
PhaseAfterAuto == "evdev"

AfterDisplay_Raises(ok, nextpc) == IF ok THEN nextpc ELSE "crashed"

\* lines 114-128: display_image catches every Exception of the load and
\* the draw, paints the red frame and returns
AfterDisplay(ok, nextpc) == nextpc

QueuePut_Drops(q) == q

\* line 77: `touch_queue.put(True)` on an unbounded queue.Queue
QueuePut(q) == Append(q, TRUE)

\* line 234: `touch_queue.empty()`
QueueEmpty(q) == q = <<>>

\* line 235: `touch_queue.get_nowait()`, what it leaves in the queue
QueueGet(q) == Tail(q)

Log(o, ph) == IF o # <<>> /\ o[Len(o)] = ph THEN o ELSE Append(o, ph)
Live(pr) == {p \in DOMAIN pr : pr[p].alive}
Spawned == [alive |-> TRUE, term |-> FALSE]

\* ------------------------------------------------------------- show(idx)
\* lines 190-203, entered with the handle cp, the flag lwv, the time now and
\* the players pr that the terminate step (181-188) left
ShowItem(i, nextpc, cp, lwv, now, pr, rec) ==
    \/ /\ KindOf(i) = "img"
       /\ clock' = now + (IF NeedsReset(KindOf(i), lwv) THEN BLACKOUT_MS ELSE 0)
       /\ \E ok \in BOOLEAN :
             /\ screen' = IF ok THEN "image" ELSE "error"
             /\ pc' = AfterDisplay(ok, nextpc)
       /\ last_was_video' = LwvAfterImage(lwv)
       /\ current_proc' = cp
       /\ procs' = pr
       /\ lastShow' = [rec EXCEPT !.reset = NeedsReset(KindOf(i), lwv),
                                  !.lwvAtEntry = lwv,
                                  !.took = clock' - clock]
    \/ /\ KindOf(i) = "vid"
       /\ \/ /\ current_proc' = Len(pr) + 1
             /\ procs' = Append(pr, Spawned)
             /\ clock' = now
             /\ screen' = "video"
             /\ lastShow' = [rec EXCEPT !.launched = TRUE,
                                        !.liveAtLaunch = Cardinality(Live(pr)),
                                        !.lwvAtEntry = lwv,
                                        !.took = clock' - clock]
          \/ /\ current_proc' = None
             /\ procs' = pr
             /\ clock' = now + BLACKOUT_MS
             /\ screen' = "black"
             /\ lastShow' = [rec EXCEPT !.lwvAtEntry = lwv,
                                        !.took = clock' - clock]
       /\ last_was_video' = LwvAfterVideo(current_proc' # None)
       /\ pc' = nextpc

\* lines 171-203, called with current_proc = cp and last_was_video = lwv.
\* `from` is the kind of the item on display when show was called, `elapsed`
\* the time since the previous show began, `displayed` the time since the
\* previous show returned, `took` the time this call takes.
Show(i, cause, from, nextpc, cp, lwv) ==
    LET rec == [NoShow EXCEPT !.cause = cause, !.from = from, !.to = KindOf(i),
                              !.elapsed = clock - last_show_ms,
                              !.displayed = clock - last_show_ms - lastShow.took]
    IN
    /\ idx' = i
    /\ last_show_ms' = clock
    /\ shows' = IF cause = "start" THEN shows ELSE shows + 1
    /\ showsInTick' = IF cause = "start" THEN showsInTick ELSE showsInTick + 1
    /\ \/ /\ ~MustTerminate(cp, procs)
          /\ ShowItem(i, nextpc, cp, lwv, clock, procs, rec)
       \/ \* terminate(), and wait(timeout=2) returns after d ms
          /\ MustTerminate(cp, procs)
          /\ \E d \in WaitDurations :
                ShowItem(i, nextpc, None, TRUE, clock + d,
                         [procs EXCEPT ![cp] = [alive |-> FALSE, term |-> TRUE]],
                         rec)
       \/ \* terminate(), and wait(timeout=2) raises subprocess.TimeoutExpired,
          \* which nothing catches
          /\ MustTerminate(cp, procs)
          /\ procs' = [procs EXCEPT ![cp].term = TRUE]
          /\ clock' = clock + TERM_TIMEOUT_MS
          /\ pc' = "crashed"
          /\ current_proc' = cp
          /\ last_was_video' = lwv
          /\ lastShow' = [rec EXCEPT !.termTimeout = TRUE, !.lwvAtEntry = lwv,
                                     !.took = TERM_TIMEOUT_MS]
          /\ UNCHANGED screen

\* a step of the loop that does not call show
Unshown ==
    UNCHANGED <<idx, current_proc, last_was_video, last_show_ms, clock, procs,
                screen, shows, showsInTick, lastShow>>

IgnorePress_RestartsDwell ==
    /\ last_show_ms' = clock
    /\ UNCHANGED <<idx, current_proc, last_was_video, clock, procs, screen,
                   shows, showsInTick, lastShow>>

\* lines 223-224, 239-240: the press is ignored
IgnorePress == Unshown

\* ------------------------------------------------------------- main()
EmptyCatalogExit_Status0 == "stopped"

\* lines 154-156: `if not media: ... sys.exit(1)`
EmptyCatalogExit == "exit1"

\* lines 150-205
Start ==
    /\ pc = "start"
    /\ UNCHANGED <<media, running, touch_queue, events, order, pushed, popped>>
    /\ \/ /\ N = 0
          /\ pc' = EmptyCatalogExit
          /\ UNCHANGED <<idx, current_proc, last_was_video, last_show_ms, clock,
                         procs, listener, screen, shows, showsInTick, lastShow>>
       \/ /\ N > 0
          /\ listener' \in BOOLEAN
          /\ Show(0, "start", "none", "loop", current_proc, last_was_video)

\* lines 208-209: `while running` and `pygame.event.get()`
LoopTop ==
    /\ pc = "loop"
    /\ running
    /\ \E b \in Batches :
          /\ events' = b
          /\ pc' = IF b = <<>> THEN PhaseAfterEvents ELSE "events"
    /\ showsInTick' = 0
    /\ order' = <<>>
    /\ UNCHANGED <<media, running, idx, current_proc, last_was_video,
                   last_show_ms, clock, procs, touch_queue, listener, screen,
                   shows, lastShow, pushed, popped>>

\* lines 209-224: one iteration of `for event in pygame.event.get()`
HandleEvent ==
    /\ pc = "events"
    /\ events # <<>>
    /\ LET e == Head(events)
           nextpc == IF Tail(events) = <<>> THEN PhaseAfterEvents ELSE "events"
       IN
       /\ events' = Tail(events)
       /\ order' = Log(order, "display")
       /\ \/ /\ e \in {"QUIT", "KEYDOWN_ESCAPE"}
             /\ running' = FALSE
             /\ pc' = nextpc
             /\ Unshown
          \/ /\ e \in PointerDown
             /\ DwellOk(clock, last_show_ms)
             /\ Show(NextIdx(idx), "pointer", KindOf(idx), nextpc,
                     current_proc, last_was_video)
             /\ UNCHANGED running
          \/ /\ e \in PointerDown
             /\ ~DwellOk(clock, last_show_ms)
             /\ pc' = nextpc
             /\ IgnorePress
             /\ UNCHANGED running
          \/ /\ e \notin {"QUIT", "KEYDOWN_ESCAPE"} \cup PointerDown
             /\ pc' = nextpc
             /\ Unshown
             /\ UNCHANGED running
    /\ UNCHANGED <<media, touch_queue, listener, pushed, popped>>

\* lines 226-231
AutoAdvance ==
    /\ pc = "auto"
    /\ order' = Log(order, "completion")
    /\ \/ /\ VideoFinished(current_proc, procs)
          /\ Show(NextIdx(idx), "auto", KindOf(idx), PhaseAfterAuto, None, TRUE)
       \/ /\ ~VideoFinished(current_proc, procs)
          /\ pc' = PhaseAfterAuto
          /\ Unshown
    /\ UNCHANGED <<media, running, touch_queue, events, listener, pushed, popped>>

\* line 234: `while not touch_queue.empty()` finds a token
DrainCheck ==
    /\ pc = "evdev"
    /\ ~QueueEmpty(touch_queue)
    /\ pc' = "evdev_get"
    /\ Unshown
    /\ UNCHANGED <<media, running, touch_queue, events, listener, order,
                   pushed, popped>>

\* lines 235-240: `touch_queue.get_nowait()` and the dwell test
DrainTouch ==
    /\ pc = "evdev_get"
    /\ \/ \* get_nowait() raises queue.Empty, which nothing catches
          /\ QueueEmpty(touch_queue)
          /\ pc' = "crashed"
          /\ Unshown
          /\ UNCHANGED <<touch_queue, popped, order>>
       \/ /\ ~QueueEmpty(touch_queue)
          /\ touch_queue' = QueueGet(touch_queue)
          /\ popped' = popped + 1
          /\ order' = Log(order, "touch")
          /\ \/ /\ DwellOk(clock, last_show_ms)
                /\ Show(NextIdx(idx), "evdev", KindOf(idx), "evdev",
                        current_proc, last_was_video)
             \/ /\ ~DwellOk(clock, last_show_ms)
                /\ pc' = "evdev"
                /\ IgnorePress
    /\ UNCHANGED <<media, running, events, listener, pushed>>

\* lines 234, 242: the queue is empty, `clock.tick(30)` ends the pass
Tick ==
    /\ pc = "evdev"
    /\ QueueEmpty(touch_queue)
    /\ \E d \in TickDurations :
          /\ clock + d <= MaxTime
          /\ clock' = clock + d
    /\ pc' = "loop"
    /\ UNCHANGED <<media, running, idx, current_proc, last_was_video,
                   last_show_ms, procs, touch_queue, events, listener, screen,
                   shows, showsInTick, order, lastShow, pushed, popped>>

\* lines 208, 244-248: `running` is false; terminate without waiting, exit
Shutdown ==
    /\ pc = "loop"
    /\ ~running
    /\ procs' = IF MustTerminate(current_proc, procs)
                THEN [procs EXCEPT ![current_proc].term = TRUE]
                ELSE procs
    /\ pc' = "stopped"
    /\ UNCHANGED <<media, running, idx, current_proc, last_was_video,
                   last_show_ms, clock, touch_queue, events, listener, screen,
                   shows, showsInTick, order, lastShow, pushed, popped>>

\* ------------------------------------------------------- the environment
Exited == {"stopped", "crashed", "exit1"}

\* lines 73-77: the EvdevTouch thread sees a press and puts a token
TouchPut ==
    /\ listener
    /\ pc \notin Exited
    /\ pushed < MaxTouches
    /\ touch_queue' = QueuePut(touch_queue)
    /\ pushed' = pushed + 1
    /\ UNCHANGED <<media, pc, running, idx, current_proc, last_was_video,
                   last_show_ms, clock, procs, events, listener, screen, shows,
                   showsInTick, order, lastShow, popped>>

\* a player spawned at line 146 exits: by itself with any status, or on the
\* SIGTERM that terminate() sent.  poll() then returns its status, which the
\* program only ever compares with None (lines 182, 227, 244).
ProcExit ==
    /\ \E p \in Live(procs) : procs' = [procs EXCEPT ![p].alive = FALSE]
    /\ UNCHANGED <<media, pc, running, idx, current_proc, last_was_video,
                   last_show_ms, clock, touch_queue, events, listener, screen,
                   shows, showsInTick, order, lastShow, pushed, popped>>

Main == Start \/ LoopTop \/ HandleEvent \/ AutoAdvance \/ DrainCheck
           \/ DrainTouch \/ Tick \/ Shutdown

Next == Start \/ LoopTop \/ HandleEvent \/ AutoAdvance \/ DrainCheck
           \/ DrainTouch \/ Tick \/ Shutdown \/ TouchPut \/ ProcExit

Spec == Init /\ [][Next]_vars

\* the main thread keeps running whenever it has a step to take; nothing is
\* assumed of the players or of the touch listener
LiveSpec == Init /\ [][Next]_vars /\ WF_vars(Main)

TypeOK ==
    /\ media \in Catalogs
    /\ pc \in {"start", "loop", "events", "auto", "evdev", "evdev_get"}
             \cup Exited
    /\ running \in BOOLEAN
    /\ idx \in Nat
    /\ current_proc \in {None} \cup DOMAIN procs
    /\ last_was_video \in BOOLEAN
    /\ last_show_ms \in Nat /\ clock \in Nat /\ last_show_ms <= clock
    /\ \A p \in DOMAIN procs : procs[p].alive \in BOOLEAN /\ procs[p].term \in BOOLEAN
    /\ events \in Batches
    /\ listener \in BOOLEAN
    /\ screen \in {"none", "image", "error", "black", "video"}

\* ------------------------------------------------------------ properties
InTick == pc \in {"events", "auto", "evdev", "evdev_get"}
Transitioned == lastShow.cause \in {"pointer", "auto", "evdev"}

\* C1: at most one player spawned by the controller is alive in any state,
\* and whenever show() called play_video no earlier player was still alive.
C1_OneLivePlayer ==
    /\ Cardinality(Live(procs)) <= 1
    /\ lastShow.launched => lastShow.liveAtLaunch = 0

\* a player was launched by a show() that first terminated a running one
C1_Witness ==
    /\ lastShow.launched
    /\ Len(procs) >= 2
    /\ procs[Len(procs) - 1].term
    /\ procs[Len(procs)].alive

C3_OneShowPerTick == showsInTick <= 1

\* C4: a show() that ran to its end reset the display exactly when the item
\* on display before was a video and the item shown is an image.
C4_ResetIffVideoToImage ==
    (lastShow.cause # "none" /\ ~lastShow.termTimeout) =>
        (lastShow.reset <=> (lastShow.from = "vid" /\ lastShow.to = "img"))

\* C5: when the 2000 ms wait for the terminated player times out, show()
\* still retires the handle and the loop goes on.
C5_TimeoutIsSurvived ==
    lastShow.termTimeout => (pc # "crashed" /\ current_proc = None)

\* C6: once a QUIT or Escape was seen in a pass, nothing later in that pass
\* changes idx, calls show(), launches a player or redraws.
C6_QuitShortCircuits ==
    [][(InTick /\ ~running) =>
          (idx' = idx /\ shows' = shows /\ Len(procs') = Len(procs)
           /\ screen' = screen)]_vars

Rank(ph) == CASE ph = "display" -> 1 [] ph = "completion" -> 2 [] ph = "touch" -> 3
RankStated(ph) == CASE ph = "display" -> 1 [] ph = "touch" -> 2 [] ph = "completion" -> 3
Has(ph) == \E k \in DOMAIN order : order[k] = ph

\* C7 as stated: in one pass, display events, then evdev tokens, then the
\* video-completion check.
C7_OrderStated ==
    \A j, k \in DOMAIN order : j < k => RankStated(order[j]) < RankStated(order[k])

\* C7 amended: in one pass, all display events come first, then the
\* video-completion check, then the evdev tokens.
C7_OrderInCode ==
    /\ \A j, k \in DOMAIN order : j < k => Rank(order[j]) < Rank(order[k])
    /\ Has("completion") => events = <<>>
    /\ Has("touch") => Has("completion")

\* a pass that handled all three sources
C7_Witness == order = <<"display", "completion", "touch">>

\* C8: with N >= 1 items, after k transitions idx = k mod N, and idx is
\* always in range.
C8_IndexIsCountModN == N >= 1 => (idx = shows % N /\ 0 <= idx /\ idx < N)

\* the index has wrapped around a catalog of two or more items
C8_Witness == N >= 2 /\ shows > N

\* C9: handling a press that fails the dwell check removes it from its
\* source and leaves idx, current_proc, last_show_ms and last_was_video as
\* they were, and calls no show().
C9_DroppedForGood ==
    [][/\ (/\ pc = "events" /\ events # <<>> /\ Head(events) \in PointerDown
           /\ clock - last_show_ms < MIN_VIEW_MS
           /\ events' # events)
          => (/\ events' = Tail(events)
              /\ shows' = shows
              /\ UNCHANGED <<idx, current_proc, last_show_ms, last_was_video>>)
       /\ (/\ pc = "evdev_get" /\ touch_queue # <<>>
           /\ clock - last_show_ms < MIN_VIEW_MS
           /\ popped' # popped)
          => (/\ touch_queue' = Tail(touch_queue)
              /\ popped' = popped + 1
              /\ shows' = shows
              /\ UNCHANGED <<idx, current_proc, last_show_ms, last_was_video>>)
      ]_vars

\* a token was taken off the queue and no show() followed Start: it was
\* dropped
C9_Witness == popped >= 1 /\ shows = 0 /\ pc = "evdev"

\* the horizon MaxTime leaves room for clock.tick() to end the pass
TickFits == \E d \in TickDurations : clock + d <= MaxTime
FinishedPending(b) ==
    /\ pc \in {"loop", "events", "auto", "evdev", "evdev_get"}
    /\ running
    /\ current_proc # None
    /\ ~procs[current_proc].alive
    /\ TickFits
    /\ shows % 2 = b

\* C10: once the player held in current_proc has exited, and unless a
\* shutdown is seen, the loop goes on to call show() for the next index
\* with no press needed; and an auto-advance onto an image resets the
\* display before drawing it.
C10_FinishedVideoAdvances ==
    /\ \A b \in {0, 1} : FinishedPending(b) ~> (shows % 2 # b \/ ~running)
    /\ [](lastShow.cause = "auto" /\ lastShow.to = "img" => lastShow.reset)

\* the loop auto-advanced from a finished video onto an image
C10_Witness ==
    /\ lastShow.cause = "auto" /\ lastShow.from = "vid" /\ lastShow.to = "img"
    /\ lastShow.reset /\ screen = "image"

FailedLaunch ==
    lastShow.to = "vid" /\ ~lastShow.launched /\ ~lastShow.termTimeout

\* C11: after a show() of a video for which play_video returned None, and
\* until the next show(): no handle is held, last_was_video is true, the
\* black frame is up and no player was spawned; the next show() is made by
\* a press, never by the auto-advance, and resets the display when it shows
\* an image.
C11_FailedLaunchIsShown ==
    /\ [](FailedLaunch =>
            /\ current_proc = None
            /\ last_was_video
            /\ screen = "black"
            /\ Live(procs) = {})
    /\ [][(FailedLaunch /\ shows' # shows) =>
            /\ lastShow'.cause \in {"pointer", "evdev"}
            /\ lastShow'.to = "img" => lastShow'.reset]_vars

\* an image was shown, with a reset, right after a video that no player
\* could play
C11_Witness ==
    /\ lastShow.to = "img" /\ lastShow.reset /\ lastShow.from = "vid"
    /\ lastShow.cause \in {"pointer", "evdev"}
    /\ procs = <<>>

\* C12: once a shutdown signal was seen the program ends in Stopped and in
\* no other way, and in Stopped every player still running has been sent
\* terminate().
C12_ShutdownReachesStopped ==
    /\ ~running => pc # "crashed"
    /\ pc = "stopped" => \A p \in Live(procs) : procs[p].term

\* C13: a press is accepted only when the item on display has been up for
\* at least MIN_VIEW_MS, counted from the end of the show() that put it up.
C13_DwellCountsDisplayTime ==
    lastShow.cause \in {"pointer", "evdev"} => lastShow.displayed >= MIN_VIEW_MS

\* a step in which a show() call ran to its end
ShowCompleted ==
    /\ pc' # "crashed"
    /\ \/ shows' # shows
       \/ pc = "start" /\ pc' = "loop"

\* C14: last_show_ms is set to the time of the call by every show() that
\* runs to its end, and no other step changes it.
C14_TimeSetOnSuccessOnly ==
    [][/\ ShowCompleted => last_show_ms' = clock
       /\ ~ShowCompleted => last_show_ms' = last_show_ms]_vars

\* C15: a handle for which show() requested terminate() is no longer held
\* in current_proc, whether or not its player has exited.  (The terminate()
\* of the shutdown cleanup, lines 244-245, is not part of a transition.)
C15_TerminatedHandleRetired ==
    pc # "stopped" => \A p \in DOMAIN procs : procs[p].term => current_proc # p

C17_EmptyCatalogExits ==
    N = 0 =>
        /\ pc \in {"start", "exit1"}
        /\ screen = "none"
        /\ ~listener
        /\ procs = <<>> /\ current_proc = None
        /\ touch_queue = <<>> /\ pushed = 0
        /\ shows = 0 /\ lastShow = NoShow

\* the program has exited on an empty catalog
C17_Witness == N = 0 /\ pc = "exit1"

\* C18: an image that cannot be loaded or drawn leaves the red error frame
\* and the state of a shown image (idx on that image, last_was_video false,
\* no exception out of show()); the next show() from there goes to the next
\* index and does not fail.
C18_BadImageIsShown ==
    /\ [](screen = "error" =>
            /\ pc \notin Exited \/ pc = "stopped"
            /\ lastShow.to = "img" /\ KindOf(idx) = "img"
            /\ ~last_was_video
            /\ last_show_ms + lastShow.took <= clock)
    /\ [][(screen = "error" /\ shows' # shows) =>
            /\ idx' = (idx + 1) % N
            /\ pc' # "crashed"
            /\ last_show_ms' = clock]_vars

\* a later pass of the loop, with the error frame of a failed image up
C18_Witness == screen = "error" /\ shows >= 1 /\ pc = "events" /\ clock > last_show_ms

\* C19: the auto-advance of lines 226-231 only ever leaves a video; an
\* image is left by a press alone.
C19_AutoAdvanceLeavesVideoOnly ==
    lastShow.cause = "auto" => lastShow.from = "vid"

\* C20: whenever show() has run to its end, so at every point of the loop
\* outside a show() call, last_was_video is true exactly when the item at
\* idx is a video, played or not.
C20_FlagIsKindOfCurrent ==
    pc \in {"loop", "events", "auto", "evdev", "evdev_get", "stopped"} =>
        (last_was_video <=> KindOf(idx) = "vid")

\* the loop stands on a video that no player could play, after an image
C20_Witness ==
    /\ pc = "loop" /\ last_was_video /\ current_proc = None
    /\ lastShow.from = "img" /\ lastShow.to = "vid" /\ ~lastShow.launched

====
